---- MODULE Spec2Model ----
(***************************************************************************)
(* Model of the Exchange engine of lib/models.py: the balance snapshot,    *)
(* the two per-asset timestamp dictionaries, order sizing, bulk            *)
(* liquidation, the expiry sweep and directive execution.                  *)
(*                                                                         *)
(* Python dictionaries are modelled as sequences of [k, v] entries in      *)
(* insertion order.  Amounts are exact fractions [num, den], den > 0, in   *)
(* lowest terms.                                                           *)
(* Time is an integer number of clock ticks; one hour is HourTicks ticks.  *)
(* The exchange is the environment: each entry-point call draws the        *)
(* answers of the exchange (which calls fail, the ticker price, the        *)
(* balance listing) and the clock skew between two reads of the clock.     *)
(***************************************************************************)
EXTENDS Integers, Sequences, FiniteSets, TLC

\* the three dictionaries of the engine, the clock, and the exception that
\* left the most recent entry-point call ("none" when it returned)
VARIABLES _asset_balances, _buy_time, _sell_time, now, raised

\* the directive generator: the text the service answered, as the tokens
\* split() yields, and the outcome of getTradeAdvice for it
VARIABLES response, parsed

\* the article source: the last-seen time of every feed, and the outcome of
\* the most recent getArticles
VARIABLES _last_article_times, polled

engine == <<_asset_balances, _buy_time, _sell_time, now, raised>>

advisor == <<response, parsed>>

provider == <<_last_article_times, polled>>

\* two calls of _executeOrder for one asset, a buy and a sell, run by a
\* driver that either runs each to its end or interleaves their statements:
\* the driver's mode, the statement each call has reached, the buy's duration
VARIABLES pc

vars == <<engine, advisor, provider, pc>>

(* ------------------------------ bounds -------------------------------- *)
\* the largest free amount of a listing, the largest ticker price, the longest
\* duration of a directive (hours), the last clock tick, the largest advance
\* of the clock between two reads, the last exchange call of an entry-point
\* call that may fail, and the clock ticks of one hour
MaxFree == 2
MaxPrice == 2
MaxDuration == 1
MaxTime == 1
MaxSkew == 1
MaxFail == 3
HourTicks == 2
\* the most tokens of a response, the latest article time, the most articles
\* one getter yields in one poll
MaxTokens == 4
MaxStamp == 3
MaxBatch == 2
\* the number of article getters the provider is constructed with
NumFeeds == 2

(* ------------------------- program constants -------------------------- *)
\* max_fee = 0.001 as the fraction MaxFeeNum / MaxFeeDen
MaxFeeNum == 1
MaxFeeDen == 1000
\* percent passed by executeTradeAdvice to _buyAsset
BuyPercent == 20
\* default percent of _sellAsset
SellPercent == 100
\* the quote currency
USDT == "USDT"
\* the asset a buy of "all" is mapped to
DefaultAsset == "AVAX"
\* getTradeAdvice was not called for the response
NotCalled == [returned |-> [kind |-> "not called"], log |-> ""]
\* getArticles was not called
NotPolled == [forwarded |-> <<>>, exc |-> "not called"]
\* what an article getter that raises yields
Failing == <<-1>>
\* a duration of None
None == -1

(* --------------------------- dictionaries ----------------------------- *)
Has(d, k) == \E i \in DOMAIN d : d[i].k = k

Get(d, k) == d[CHOOSE i \in DOMAIN d : d[i].k = k].v

Put(d, k, v) ==
    IF Has(d, k)
    THEN [i \in DOMAIN d |-> IF d[i].k = k THEN [k |-> k, v |-> v] ELSE d[i]]
    ELSE Append(d, [k |-> k, v |-> v])

Del(d, k) == SelectSeq(d, LAMBDA en : en.k # k)

(* ------------------------------ amounts ------------------------------ *)
RECURSIVE GCD(_, _)
GCD(a, b) == IF b = 0 THEN a ELSE GCD(b, a % b)

\* the amount n / d in lowest terms, for n >= 0 and d > 0
Frac(n, d) == [num |-> n \div GCD(n, d), den |-> d \div GCD(n, d)]

(* ----------------------------- outcomes ------------------------------- *)
Ok(m) == [m |-> m, exc |-> "none"]

Raise(m, x) == [m |-> m, exc |-> x]

\* the n-th exchange call of the running entry point fails
CallFails(m, e) == (m.n + 1) \in e.fail

\* the call is made: it is appended to the trace of exchange calls
Called(m, e, fn, asset) ==
    [m EXCEPT !.n = m.n + 1,
              !.calls = Append(m.calls, [fn |-> fn, asset |-> asset, ok |-> ~CallFails(m, e)])]

Submit(m, position, asset, amount) ==
    [m EXCEPT !.orders = Append(m.orders,
        [position |-> position, asset |-> asset, amount |-> amount])]

Logged(m, msg) == [m EXCEPT !.log = Append(m.log, msg)]

(* -------------------------- ArticleProvider --------------------------- *)
\* the feeds: the article getters the provider is constructed with
Feeds == 1 .. NumFeeds

\* datetime(1970, 1, 1), the last-seen time of a feed that was never polled
Epoch == 0

\* __init__: one last-seen time per getter
Constructed == [i \in Feeds |-> Epoch]

RECURSIVE FeedLoop(_, _, _, _, _, _)
\* the inner loop with >= in place of > in the test against the stored time
FeedLoop_OrEqual(times, i, batch, j, last_article_time, articles) ==
    IF j > Len(batch)
    THEN [articles |-> articles, last_article_time |-> last_article_time]
    ELSE IF batch[j] >= times[i]
    THEN FeedLoop(times, i, batch, j + 1,
                  IF batch[j] > last_article_time THEN batch[j] ELSE last_article_time,
                  Append(articles, [feed |-> i, time |-> batch[j]]))
    ELSE FeedLoop(times, i, batch, j + 1, last_article_time, articles)

FeedLoop(times, i, batch, j, last_article_time, articles) ==
    IF j > Len(batch)
    THEN [articles |-> articles, last_article_time |-> last_article_time]
    ELSE IF batch[j] > times[i]
    THEN FeedLoop(times, i, batch, j + 1,
                  IF batch[j] > last_article_time THEN batch[j] ELSE last_article_time,
                  Append(articles, [feed |-> i, time |-> batch[j]]))
    ELSE FeedLoop(times, i, batch, j + 1, last_article_time, articles)

\* the outer loop of getArticles from feed i on: answers[i] is what the
\* getter of feed i yields, or Failing when the getter raises, which ends the
\* call with the feeds before i already assigned and the articles lost
RECURSIVE PollFrom(_, _, _, _)
PollFrom(times, answers, i, articles) ==
    IF i > NumFeeds THEN [times |-> times, articles |-> articles, exc |-> "none"]
    ELSE IF answers[i] = Failing
    THEN [times |-> times, articles |-> <<>>, exc |-> "Exception"]
    ELSE LET f == FeedLoop(times, i, answers[i], 1, times[i], articles)
         IN  PollFrom([times EXCEPT ![i] = f.last_article_time], answers, i + 1, f.articles)

getArticles(times, answers) == PollFrom(times, answers, 1, <<>>)

(* ---------------------------- TradeAdvisor ---------------------------- *)
\* str.isdigit() on the tokens of the vocabulary
IsDigit(token) == token \in {"10", "007"}

\* int() on the tokens that are digits
IntOf(token) == CASE token = "10" -> 10 [] token = "007" -> 7

NoAdvice == [kind |-> "none", position |-> "", asset |-> "", duration |-> None]

Advice(position, asset, duration) ==
    [kind |-> "advice", position |-> position, asset |-> asset, duration |-> duration]

Raises(x) == [kind |-> x, position |-> "", asset |-> "", duration |-> None]

\* parts is response.split(); after position, asset, *parts = parts the rest
\* is SubSeq(parts, 3, Len(parts)); parts[0] of an empty rest raises IndexError
_parseGptResponse(parts) ==
    IF Len(parts) <= 1 THEN NoAdvice
    ELSE LET position == parts[1]
             asset == parts[2]
             rest == SubSeq(parts, 3, Len(parts))
         IN  IF position = "sell" THEN Advice(position, asset, None)
             ELSE IF position = "buy"
             THEN IF Len(rest) = 2 THEN NoAdvice
                  ELSE IF rest = <<>> THEN Raises("IndexError")
                  ELSE IF ~IsDigit(rest[1]) THEN NoAdvice
                  ELSE Advice(position, IF asset = "all" THEN DefaultAsset ELSE asset,
                              IntOf(rest[1]))
             ELSE NoAdvice

\* the response is parsed, the outcome logged, and parsed again for the
\* return value; an exception of the parser leaves the call
getTradeAdvice(parts) ==
    LET p == _parseGptResponse(parts)
    IN  IF p.kind = "advice"
        THEN [returned |-> _parseGptResponse(parts), log |-> "trade advice"]
        ELSE IF p.kind = "none"
        THEN [returned |-> NoAdvice, log |-> "invalid gpt response"]
        ELSE [returned |-> p, log |-> ""]

(* -------------------------- Exchange methods -------------------------- *)
\* for info in exchange_balance: self._asset_balances[info['asset']] = float(info['free'])
RECURSIVE LoadBalances(_, _, _)
LoadBalances(d, listing, i) ==
    IF i > Len(listing) THEN d
    ELSE LoadBalances(Put(d, listing[i].asset, listing[i].free), listing, i + 1)

\* the refresh without the assignment of the empty dictionary: the listing
\* is loaded over the entries of the previous snapshot
_refreshBalances_NoClear(m, e) ==
    LET m0 == Called(m, e, "fetch_balance", "")
    IN  IF CallFails(m, e) THEN Raise(m0, "ExchangeError")
        ELSE Ok([m0 EXCEPT !.bal = LoadBalances(m.bal, e.listing, 1)])

\* the snapshot is emptied before the fetch, so a failed fetch leaves it empty
_refreshBalances(m, e) ==
    LET m0 == Called([m EXCEPT !.bal = <<>>], e, "fetch_balance", "")
    IN  IF CallFails(m, e) THEN Raise(m0, "ExchangeError")
        ELSE Ok([m0 EXCEPT !.bal = LoadBalances(<<>>, e.listing, 1)])

\* usdt_amount / asset_price
_convertUsdtToAssetWithPrice(usdt_amount, asset_price) ==
    Frac(usdt_amount.num, usdt_amount.den * asset_price)

\* fetch_ticker(...)['last'], then the conversion
_convertUsdtToAsset(m, e, asset, usdt_amount) ==
    LET m0 == Called(m, e, "fetch_ticker", asset)
    IN
    IF CallFails(m, e) THEN [m |-> m0, exc |-> "ExchangeError", amount |-> usdt_amount]
    ELSE [m |-> [m0 EXCEPT !.price = e.price], exc |-> "none",
          amount |-> _convertUsdtToAssetWithPrice(usdt_amount, e.price)]

\* the buy branch of _executeOrder: the clock is read twice, e.now and
\* e.now + e.skew; timedelta(hours=None) raises after _buy_time is written
ExecuteBuy(m, e, order) ==
    IF CallFails(m, e)
    THEN Raise(Called(m, e, "create_market_buy_order", order.asset), "ExchangeError")
    ELSE LET m1 == Submit(Called(m, e, "create_market_buy_order", order.asset),
                          "buy", order.asset, order.amount)
             m2 == [m1 EXCEPT !.buy = Put(m1.buy, order.asset, e.now),
                              !.t = e.now + e.skew]
         IN  IF order.duration = None THEN Raise(m2, "TypeError")
             ELSE Ok(Logged(
                     [m2 EXCEPT !.sell = Put(m2.sell, order.asset,
                                   e.now + e.skew + order.duration * HourTicks)],
                     [msg |-> "executed", asset |-> order.asset, exc |-> "none"]))

\* the sell branch followed by an assignment of zero to the asset's balance
ExecuteSell_Debits(m, e, order) ==
    IF CallFails(m, e)
    THEN Raise(Called(m, e, "create_market_sell_order", order.asset), "ExchangeError")
    ELSE LET m1 == Submit(Called(m, e, "create_market_sell_order", order.asset),
                          "sell", order.asset, order.amount)
             m0 == [m1 EXCEPT !.bal = Put(m1.bal, order.asset, 0)]
         IN  IF ~Has(m0.buy, order.asset) THEN Raise(m0, "KeyError")
             ELSE LET m2 == [m0 EXCEPT !.buy = Del(m0.buy, order.asset)]
                  IN  IF ~Has(m2.sell, order.asset) THEN Raise(m2, "KeyError")
                      ELSE Ok(Logged(
                              [m2 EXCEPT !.sell = Del(m2.sell, order.asset)],
                              [msg |-> "executed", asset |-> order.asset, exc |-> "none"]))

\* the sell branch of _executeOrder: del raises KeyError on a missing key
ExecuteSell(m, e, order) ==
    IF CallFails(m, e)
    THEN Raise(Called(m, e, "create_market_sell_order", order.asset), "ExchangeError")
    ELSE LET m1 == Submit(Called(m, e, "create_market_sell_order", order.asset),
                          "sell", order.asset, order.amount)
         IN  IF ~Has(m1.buy, order.asset) THEN Raise(m1, "KeyError")
             ELSE LET m2 == [m1 EXCEPT !.buy = Del(m1.buy, order.asset)]
                  IN  IF ~Has(m2.sell, order.asset) THEN Raise(m2, "KeyError")
                      ELSE Ok(Logged(
                              [m2 EXCEPT !.sell = Del(m2.sell, order.asset)],
                              [msg |-> "executed", asset |-> order.asset, exc |-> "none"]))

\* _executeOrder without the second membership test: after the refresh the
\* order goes on whether or not the asset is in the snapshot
_executeOrder_NoRecheck(m, e, order) ==
    LET r == IF ~Has(m.bal, order.asset) THEN _refreshBalances(m, e) ELSE Ok(m)
    IN  IF r.exc # "none" THEN r
        ELSE IF order.position = "buy" THEN ExecuteBuy(r.m, e, order)
        ELSE IF order.position = "sell" THEN ExecuteSell(r.m, e, order)
        ELSE r

_executeOrder(m, e, order) ==
    LET r == IF ~Has(m.bal, order.asset) THEN _refreshBalances(m, e) ELSE Ok(m)
    IN  IF r.exc # "none" THEN r
        ELSE IF ~Has(r.m.bal, order.asset) THEN r
        ELSE IF order.position = "buy" THEN ExecuteBuy(r.m, e, order)
        ELSE IF order.position = "sell" THEN ExecuteSell(r.m, e, order)
        ELSE r

\* balance * percent / 100 * (1 - max_fee)
Sized(balance, percent) ==
    Frac(balance * percent * (MaxFeeDen - MaxFeeNum), 100 * MaxFeeDen)

\* the guard with >= in place of >
Positive_OrZero(amount) == amount.num >= 0

\* amount > 0 for an amount whose denominator is positive
Positive(amount) == amount.num > 0

\* _sellAsset without its try/except: what _executeOrder raises leaves it
_sellAsset_NoCatch(m, e, asset, percent) ==
    IF ~Has(m.bal, asset) THEN Raise(m, "KeyError")
    ELSE LET amount_asset == Sized(Get(m.bal, asset), percent)
         IN  IF Positive(amount_asset)
             THEN _executeOrder(m, e, [position |-> "sell", asset |-> asset,
                                       amount |-> amount_asset, duration |-> None])
             ELSE Ok(m)

_sellAsset(m, e, asset, percent) ==
    LET failed(mm, x) == Ok(Logged(mm, [msg |-> "failed to sell", asset |-> asset, exc |-> x]))
    IN  IF ~Has(m.bal, asset) THEN failed(m, "KeyError")
        ELSE LET amount_asset == Sized(Get(m.bal, asset), percent)
             IN  IF Positive(amount_asset)
                 THEN LET r == _executeOrder(m, e,
                                 [position |-> "sell", asset |-> asset,
                                  amount |-> amount_asset, duration |-> None])
                      IN  IF r.exc # "none" THEN failed(r.m, r.exc) ELSE r
                 ELSE Ok(m)

_buyAsset(m, e, asset, percent, duration) ==
    LET failed(mm, x) == Ok(Logged(mm, [msg |-> "failed to buy", asset |-> asset, exc |-> x]))
    IN  IF ~Has(m.bal, USDT) THEN Raise(m, "KeyError")
        ELSE LET amount_usdt == Sized(Get(m.bal, USDT), percent)
                 m1 == IF amount_usdt.num = 0
                       THEN Logged(m, [msg |-> "cannot buy", asset |-> asset, exc |-> "none"])
                       ELSE m
                 c == _convertUsdtToAsset(m1, e, asset, amount_usdt)
             IN  IF c.exc # "none" THEN failed(c.m, c.exc)
                 ELSE IF Positive(c.amount)
                 THEN LET r == _executeOrder(c.m, e,
                                 [position |-> "buy", asset |-> asset,
                                  amount |-> c.amount, duration |-> duration])
                      IN  IF r.exc # "none" THEN failed(r.m, r.exc) ELSE r
                 ELSE Ok(c.m)

\* the loop runs over the dictionary object that was the snapshot on entry
RECURSIVE SellAllFrom(_, _, _, _)
\* the loop without the test that skips the quote currency
SellAllFrom_WithQuote(m, e, items, i) ==
    IF i > Len(items) THEN Ok(m)
    ELSE IF items[i].v > 0
    THEN LET r == _sellAsset(m, e, items[i].k, SellPercent)
         IN  IF r.exc # "none" THEN r ELSE SellAllFrom(r.m, e, items, i + 1)
    ELSE SellAllFrom(m, e, items, i + 1)

\* the loop inside one try/except: the first sell that fails ends the batch
SellAllFrom_OneTry(m, e, items, i) ==
    IF i > Len(items) THEN Ok(m)
    ELSE IF items[i].v > 0 /\ items[i].k # USDT
    THEN LET r == _sellAsset(m, e, items[i].k, SellPercent)
         IN  IF Len(r.m.log) > Len(m.log) /\ r.m.log[Len(r.m.log)].exc # "none"
             THEN Ok(r.m)
             ELSE SellAllFrom(r.m, e, items, i + 1)
    ELSE SellAllFrom(m, e, items, i + 1)

SellAllFrom(m, e, items, i) ==
    IF i > Len(items) THEN Ok(m)
    ELSE IF items[i].v > 0 /\ items[i].k # USDT
    THEN LET r == _sellAsset(m, e, items[i].k, SellPercent)
         IN  IF r.exc # "none" THEN r ELSE SellAllFrom(r.m, e, items, i + 1)
    ELSE SellAllFrom(m, e, items, i + 1)

_sellAllAssets(m, e) == SellAllFrom(m, e, m.bal, 1)

\* for the first overdue entry the balance lookup raises KeyError when the
\* asset is not in the snapshot, and otherwise TradeOrder('sell', asset,
\* balance) raises TypeError: the namedtuple has four required fields
RECURSIVE SellOverdueFrom(_, _, _, _)
\* a sweep that builds its order in full and sells every tracked asset, its
\* expiry passed or not
SellOverdueFrom_AllEntries(m, e, items, i) ==
    IF i > Len(items) THEN Ok(m)
    ELSE IF ~Has(m.bal, items[i].k) THEN Raise(m, "KeyError")
    ELSE LET r == _executeOrder(m, e, [position |-> "sell", asset |-> items[i].k,
                                      amount |-> Frac(Get(m.bal, items[i].k), 1),
                                      duration |-> None])
         IN  IF r.exc # "none" THEN r ELSE SellOverdueFrom(r.m, e, items, i + 1)

SellOverdueFrom(m, e, items, i) ==
    IF i > Len(items) THEN Ok(m)
    ELSE IF e.now > items[i].v
    THEN IF ~Has(m.bal, items[i].k) THEN Raise(m, "KeyError")
         ELSE Raise(m, "TypeError")
    ELSE SellOverdueFrom(m, e, items, i + 1)

_sellOverdueAssets(m, e) == SellOverdueFrom(m, e, m.sell, 1)

sellRequiredAssets(m, e) == _sellOverdueAssets(m, e)

\* the sell branch with elif in place of the second if: a directive for
\* "all" liquidates in bulk and does not go on to the direct sell
executeTradeAdvice_Exclusive(m, e, advice) ==
    IF advice.position = "buy"
    THEN _buyAsset(m, e, advice.asset, BuyPercent, advice.duration)
    ELSE IF advice.position = "sell"
    THEN IF advice.asset = "all" THEN _sellAllAssets(m, e)
         ELSE IF Has(m.bal, advice.asset)
         THEN _sellAsset(m, e, advice.asset, SellPercent)
         ELSE Ok(m)
    ELSE Ok(m)

executeTradeAdvice(m, e, advice) ==
    IF advice.position = "buy"
    THEN _buyAsset(m, e, advice.asset, BuyPercent, advice.duration)
    ELSE IF advice.position = "sell"
    THEN LET r == IF advice.asset = "all" THEN _sellAllAssets(m, e) ELSE Ok(m)
         IN  IF r.exc # "none" THEN r
             ELSE IF Has(r.m.bal, advice.asset)
             THEN _sellAsset(r.m, e, advice.asset, SellPercent)
             ELSE r
    ELSE Ok(m)

\* Exchange.__init__: empty dictionaries, a refresh, then bulk liquidation
Construct(e) ==
    LET m0 == [bal |-> <<>>, buy |-> <<>>, sell |-> <<>>,
               orders |-> <<>>, log |-> <<>>, calls |-> <<>>, n |-> 0,
               price |-> 0, t |-> e.now]
        r == _refreshBalances(m0, e)
    IN  IF r.exc # "none" THEN r ELSE _sellAllAssets(r.m, e)

(* ---------------------------- environment ----------------------------- *)
\* the assets the exchange may list, in the order of its balance listing
AssetOrder == <<"BTC", "all", "USDT">>

AssetNames == {AssetOrder[i] : i \in DOMAIN AssetOrder}

Frees == {0, MaxFree}

Prices == {1, MaxPrice}

Skews == {0, MaxSkew}

Durations == {None, 0, MaxDuration}

ListingOf(S, f) ==
    SelectSeq([i \in DOMAIN AssetOrder |-> [asset |-> AssetOrder[i], free |-> f[AssetOrder[i]]]],
              LAMBDA info : info.asset \in S)

Lists(listing, asset) == \E i \in DOMAIN listing : listing[i].asset = asset

\* the answers fetch_balance may give: the quote currency is always listed,
\* "BTC" is listed or not, "all" is listed when it is held
Listings ==
    {l \in {ListingOf(S, f) : S \in SUBSET AssetNames, f \in [AssetNames -> Frees]} :
        /\ Lists(l, USDT)
        /\ \A i \in DOMAIN l : l[i].asset = "all" => l[i].free > 0}

NoListing == <<>>

\* the assets a directive names
AdviceAssets == AssetNames \ {USDT}

Advices ==
    [position : {"buy"}, asset : AdviceAssets, duration : Durations]
    \cup [position : {"sell"}, asset : AdviceAssets, duration : {None}]
    \cup [position : {"hold"}, asset : {"BTC"}, duration : {None}]

\* the answers of the exchange and of the clock to one entry-point call: the
\* exchange calls that fail, numbered in the order the call makes them, the
\* ticker price, the advance of the clock between two reads, the listing
Answer(f, p, k, l) == [fail |-> f, price |-> p, skew |-> k, listing |-> l, now |-> now]

\* the answers a buy consumes.  Its exchange calls are the ticker, then the
\* balance fetch when the asset is not in the snapshot, then the order; it
\* stops at the first that fails, before the ticker when the snapshot has no
\* quote entry, after it when the quote balance is zero, and after the fetch
\* when the listing lacks the asset.  An answer it never reads is left at
\* its default, and so is the price when no order is accepted.
BuyEnvs(advice) ==
    LET funded == Has(_asset_balances, USDT) /\ Get(_asset_balances, USDT) > 0
        skews == {k \in Skews : now + k <= MaxTime}
    IN  {Answer({1}, 1, 0, NoListing)}
        \cup IF ~funded THEN {Answer({}, 1, 0, NoListing)}
             ELSE IF Has(_asset_balances, advice.asset)
             THEN {Answer({2}, 1, 0, NoListing)}
                  \cup {Answer({}, p, k, NoListing) : p \in Prices, k \in skews}
             ELSE {Answer({2}, 1, 0, NoListing)}
                  \cup {Answer({}, 1, 0, l) : l \in {x \in Listings : ~Lists(x, advice.asset)}}
                  \cup {Answer({3}, 1, 0, l) : l \in {x \in Listings : Lists(x, advice.asset)}}
                  \cup {Answer({}, p, k, l) :
                          p \in Prices, k \in skews,
                          l \in {x \in Listings : Lists(x, advice.asset)}}

\* the most exchange calls a sell directive makes: one per asset a directive
\* may name, and one more for the named asset itself
MostSellCalls == Cardinality(AdviceAssets) + 1

\* a sell makes one order call per asset it sells, and reads nothing else
SellEnvs ==
    {Answer(f, 1, 0, NoListing) :
        f \in SUBSET (1 .. IF MaxFail < MostSellCalls THEN MaxFail ELSE MostSellCalls)}

EnvsFor(advice) ==
    IF advice.position = "buy" THEN BuyEnvs(advice)
    ELSE IF advice.position = "sell" THEN SellEnvs
    ELSE {Answer({}, 1, 0, NoListing)}

\* the orders _executeOrder may be given: a buy with its duration, a sell,
\* and an order of another direction
Orders ==
    [position : {"buy"}, asset : AdviceAssets, amount : {Frac(1, 1)}, duration : Durations]
    \cup [position : {"sell", "hold"}, asset : AdviceAssets, amount : {Frac(1, 1)},
          duration : {None}]

\* the answers _executeOrder consumes: the balance fetch when the asset is
\* not in the snapshot, then the order; either may fail, and the listing of
\* a fetch that fails is never read
ExecEnvs ==
    {Answer({1}, 1, 0, NoListing)}
    \cup {Answer(f, 1, 0, l) : f \in {{}, {2}}, l \in Listings}

\* the sweep makes no exchange call
SweepEnv == Answer({}, 1, 0, NoListing)

\* the answers the constructor consumes
InitEnvs == [fail : SUBSET (1..MaxFail), price : {1}, skew : {0},
             listing : Listings, now : {0}]

\* the engine's fields on entry to a call, with the call's empty trace: the
\* orders the exchange accepted, the log lines written, the exchange calls
\* made, the ticker price read and the last clock value read
Self(e) == [bal |-> _asset_balances, buy |-> _buy_time, sell |-> _sell_time,
            orders |-> <<>>, log |-> <<>>, calls |-> <<>>, n |-> 0,
            price |-> 0, t |-> e.now]

\* some exchange call made by the call failed
SomeCallFailed(r, e) == \E i \in e.fail : i <= r.m.n

\* the outcomes of the entry points in the current state
Advised(advice, e) == executeTradeAdvice(Self(e), e, advice)

Swept == sellRequiredAssets(Self(SweepEnv), SweepEnv)

\* the outcome of _executeOrder in the current state
Executed(order, e) == _executeOrder(Self(e), e, order)

\* the outcome of a call becomes the state
Effect(r) ==
    /\ _asset_balances' = r.m.bal
    /\ _buy_time' = r.m.buy
    /\ _sell_time' = r.m.sell
    /\ now' = r.m.t
    /\ raised' = r.exc
    /\ UNCHANGED <<advisor, provider, pc>>

(* ------------------------------ actions ------------------------------- *)
\* the directive generator before any answer of the service
AdvisorIdle == response = <<>> /\ parsed = NotCalled

\* the article source as constructed
ProviderIdle == _last_article_times = Constructed /\ polled = NotPolled

\* no call of the interleaving driver is running
NoCalls == pc = [mode |-> "none", buy |-> "start", sell |-> "start", duration |-> None]

\* the states a successful construction leaves
Init ==
    /\ AdvisorIdle /\ ProviderIdle /\ NoCalls
    /\ \E e \in InitEnvs :
        LET r == Construct(e)
        IN  /\ r.exc = "none"
            /\ _asset_balances = r.m.bal
            /\ _buy_time = r.m.buy
            /\ _sell_time = r.m.sell
            /\ now = r.m.t
            /\ raised = r.exc

\* the driver passes a buy directive to executeTradeAdvice
BuyDirective ==
    \E advice \in {a \in Advices : a.position = "buy"} :
        \E e \in EnvsFor(advice) :
            Effect(Advised(advice, e))

\* the driver passes a sell directive to executeTradeAdvice
SellDirective ==
    \E advice \in {a \in Advices : a.position = "sell"} :
        \E e \in EnvsFor(advice) :
            Effect(Advised(advice, e))

\* the driver passes a directive that is neither a buy nor a sell
OtherDirective ==
    \E advice \in {a \in Advices : a.position = "hold"} :
        \E e \in EnvsFor(advice) :
            Effect(Advised(advice, e))

\* the driver calls the sweep
SellRequiredAssets ==
    /\ _asset_balances' = Swept.m.bal
    /\ _buy_time' = Swept.m.buy
    /\ _sell_time' = Swept.m.sell
    /\ now' = Swept.m.t
    /\ raised' = Swept.exc
    /\ UNCHANGED <<advisor, provider, pc>>

\* the clock advances between two calls of the driver
Tick ==
    /\ now < MaxTime
    /\ now' = now + 1
    /\ UNCHANGED <<_asset_balances, _buy_time, _sell_time, raised>>
    /\ UNCHANGED <<advisor, provider, pc>>

Next == BuyDirective \/ SellDirective \/ OtherDirective \/ SellRequiredAssets \/ Tick

Spec == Init /\ [][Next]_vars

\* the same engine, for the properties of the snapshot under orders
EngineSpec == Spec

\* the answers one call of _executeOrder consumes in the current state: the
\* balance fetch when the asset is not in the snapshot, then the order when
\* the asset is known, and the advance of the clock between the two reads of
\* an accepted buy.  An answer the call never reads is left at its default.
OrderEnvs(order) ==
    LET skews == IF order.position = "buy"
                 THEN {k \in Skews : now + k <= MaxTime}
                 ELSE {0}
    IN  IF Has(_asset_balances, order.asset)
        THEN {Answer({1}, 1, 0, NoListing)}
             \cup {Answer({}, 1, k, NoListing) : k \in skews}
        ELSE {Answer({1}, 1, 0, NoListing)}
             \cup {Answer({}, 1, 0, l) : l \in {x \in Listings : ~Lists(x, order.asset)}}
             \cup {Answer({2}, 1, 0, l) : l \in {x \in Listings : Lists(x, order.asset)}}
             \cup {Answer({}, 1, k, l) :
                       k \in skews, l \in {x \in Listings : Lists(x, order.asset)}}

\* _executeOrder is called with an order
ExecuteOrder ==
    \E order \in Orders :
        \E e \in OrderEnvs(order) :
            Effect(Executed(order, e))

OrderNext == ExecuteOrder \/ Tick

\* the engine driven through _executeOrder
OrderSpec == Init /\ [][OrderNext]_vars

\* the driver keeps calling the sweep and the clock keeps advancing
FairSpec == Spec /\ WF_vars(SellRequiredAssets) /\ WF_vars(Tick)

(* --------------------------- the two adapters -------------------------- *)
\* the engine before its construction
EngineIdle ==
    /\ _asset_balances = <<>> /\ _buy_time = <<>> /\ _sell_time = <<>>
    /\ now = 0 /\ raised = "none"

\* the words of a response
Tokens == {"sell", "buy", "hold", "all", "BTC", "10", "007", "x"}

\* the token sequences split() may yield
Responses == UNION {[1 .. n -> Tokens] : n \in 0 .. MaxTokens}

\* the text service has answered, getTradeAdvice has not run
AdvisorInit ==
    /\ EngineIdle /\ ProviderIdle /\ NoCalls
    /\ response \in Responses
    /\ parsed = NotCalled

\* the driver calls getTradeAdvice, which receives the response
GetTradeAdvice ==
    /\ parsed = NotCalled
    /\ parsed' = getTradeAdvice(response)
    /\ UNCHANGED <<response, engine, provider, pc>>

AdvisorNext == GetTradeAdvice

AdvisorSpec == AdvisorInit /\ [][AdvisorNext]_vars

\* the times of the articles: the epoch, the tick after it, and the two latest
Stamps == {Epoch, 1, MaxStamp - 1, MaxStamp}

\* what one getter may yield in one poll
Batches == UNION {[1 .. n -> Stamps] : n \in 0 .. MaxBatch}

\* what the getters yield in one poll, a getter that raises included
PollAnswers == [Feeds -> Batches \cup {Failing}]

\* the number of articles of each feed in the list a poll returned
ForwardedOf(r) ==
    [f \in Feeds |-> Cardinality({k \in DOMAIN r.articles : r.articles[k].feed = f})]

ProviderInit == EngineIdle /\ AdvisorIdle /\ ProviderIdle /\ NoCalls

\* the outcome of a poll becomes the state
PollEffect(r) ==
    /\ _last_article_times' = r.times
    /\ polled' = [forwarded |-> ForwardedOf(r), exc |-> r.exc]
    /\ UNCHANGED <<engine, advisor, pc>>

\* the driver calls getArticles
GetArticles ==
    \E answers \in PollAnswers :
        PollEffect(getArticles(_last_article_times, answers))

ProviderNext == GetArticles

ProviderSpec == ProviderInit /\ [][ProviderNext]_vars


(* ------------------- interleaved calls of _executeOrder ---------------- *)
\* the asset both calls are for
Contended == "BTC"

\* the statements a call has left behind: for the buy, the order call, the
\* assignment of _buy_time and the assignment of _sell_time (TypeError for a
\* duration of None); for the sell, the order call and the two del statements
\* (KeyError for a missing key)
Ended == {"start", "done", "TypeError", "KeyError"}

\* a statement of one call may run: under the sequential driver only while the
\* other call has not started or has ended
MayRun(other) == pc.mode = "interleaved" \/ other \in Ended

\* the engine holds the asset and the quote currency; the asset has no
\* position, or the position a buy at the time of the construction left
RaceInit ==
    /\ AdvisorIdle /\ ProviderIdle
    /\ _asset_balances = <<[k |-> Contended, v |-> MaxFree], [k |-> USDT, v |-> MaxFree]>>
    /\ \E d \in Durations \ {None} :
          \/ _buy_time = <<>> /\ _sell_time = <<>>
          \/ /\ _buy_time = <<[k |-> Contended, v |-> 0]>>
             /\ _sell_time = <<[k |-> Contended, v |-> d * HourTicks]>>
    /\ now = 0
    /\ raised = "none"
    /\ pc \in [mode : {"sequential", "interleaved"}, buy : {"start"}, sell : {"start"},
               duration : Durations]

\* self.exchange.create_market_buy_order(symbol, order.amount)
BuySubmit ==
    /\ pc.buy = "start" /\ MayRun(pc.sell)
    /\ pc' = [pc EXCEPT !.buy = "submitted"]
    /\ UNCHANGED <<engine, advisor, provider>>

\* self._buy_time[order.asset] = datetime.now()
BuyStamp ==
    /\ pc.buy = "submitted" /\ MayRun(pc.sell)
    /\ _buy_time' = Put(_buy_time, Contended, now)
    /\ pc' = [pc EXCEPT !.buy = "stamped"]
    /\ UNCHANGED <<_asset_balances, _sell_time, now, raised, advisor, provider>>

\* self._sell_time[order.asset] = datetime.now() + timedelta(hours=order.duration)
BuyExpire ==
    /\ pc.buy = "stamped" /\ MayRun(pc.sell)
    /\ IF pc.duration = None
       THEN /\ pc' = [pc EXCEPT !.buy = "TypeError"]
            /\ UNCHANGED _sell_time
       ELSE /\ _sell_time' = Put(_sell_time, Contended, now + pc.duration * HourTicks)
            /\ pc' = [pc EXCEPT !.buy = "done"]
    /\ UNCHANGED <<_asset_balances, _buy_time, now, raised, advisor, provider>>

\* self.exchange.create_market_sell_order(symbol, order.amount)
SellSubmit ==
    /\ pc.sell = "start" /\ MayRun(pc.buy)
    /\ pc' = [pc EXCEPT !.sell = "submitted"]
    /\ UNCHANGED <<engine, advisor, provider>>

\* del self._buy_time[order.asset]
SellDelBought ==
    /\ pc.sell = "submitted" /\ MayRun(pc.buy)
    /\ IF Has(_buy_time, Contended)
       THEN /\ _buy_time' = Del(_buy_time, Contended)
            /\ pc' = [pc EXCEPT !.sell = "unbought"]
       ELSE /\ pc' = [pc EXCEPT !.sell = "KeyError"]
            /\ UNCHANGED _buy_time
    /\ UNCHANGED <<_asset_balances, _sell_time, now, raised, advisor, provider>>

\* the second del left out: the call ends with the expiry entry in place
SellDelExpiry_Kept ==
    /\ pc.sell = "unbought" /\ MayRun(pc.buy)
    /\ pc' = [pc EXCEPT !.sell = "done"]
    /\ UNCHANGED <<engine, advisor, provider>>

\* del self._sell_time[order.asset]
SellDelExpiry ==
    /\ pc.sell = "unbought" /\ MayRun(pc.buy)
    /\ IF Has(_sell_time, Contended)
       THEN /\ _sell_time' = Del(_sell_time, Contended)
            /\ pc' = [pc EXCEPT !.sell = "done"]
       ELSE /\ pc' = [pc EXCEPT !.sell = "KeyError"]
            /\ UNCHANGED _sell_time
    /\ UNCHANGED <<_asset_balances, _buy_time, now, raised, advisor, provider>>

\* the clock advances between two statements
RaceTick ==
    /\ now < MaxTime
    /\ now' = now + 1
    /\ UNCHANGED <<_asset_balances, _buy_time, _sell_time, raised, advisor, provider, pc>>

RaceNext ==
    \/ BuySubmit \/ BuyStamp \/ BuyExpire
    \/ SellSubmit \/ SellDelBought \/ SellDelExpiry
    \/ RaceTick

RaceSpec == RaceInit /\ [][RaceNext]_vars


(* ------------------------------ claims -------------------------------- *)
\* the engine on entry to the next call: the fields kept, the trace emptied
Fresh(m) == [m EXCEPT !.orders = <<>>, !.log = <<>>, !.calls = <<>>, !.n = 0, !.price = 0]

\* every exchange call of a sell succeeds
OkSellEnv == Answer({}, 1, 0, NoListing)

Sell(a) == [position |-> "sell", asset |-> a, duration |-> None]

Buy(a, d) == [position |-> "buy", asset |-> a, duration |-> d]

Held(a) == Has(_asset_balances, a) /\ Get(_asset_balances, a) > 0

Overdue(a) == Has(_sell_time, a) /\ now > Get(_sell_time, a)

\* the exchange accepted a sell order for asset a during the call
SoldIn(r, a) ==
    \E i \in DOMAIN r.m.orders : r.m.orders[i].position = "sell" /\ r.m.orders[i].asset = a

\* create_market_sell_order was called for asset a during the call
SellTriedIn(r, a) ==
    \E i \in DOMAIN r.m.calls :
        r.m.calls[i].fn = "create_market_sell_order" /\ r.m.calls[i].asset = a

AllPositive(r) ==
    \A i \in DOMAIN r.m.orders : r.m.orders[i].amount.num > 0 /\ r.m.orders[i].amount.den > 0

\* C1: in every reachable state an asset has a _buy_time entry if and only
\* if it has a _sell_time entry.
C1_BoughtIffExpires ==
    \A a \in AssetNames : Has(_buy_time, a) <=> Has(_sell_time, a)

\* C2: a sweep called while a tracked asset of the snapshot is overdue submits
\* a market sell for it whose amount is exactly its snapshot balance, and
\* removes its _buy_time and _sell_time entries.
C2_SweepSellsOverdue ==
    \A a \in AssetNames :
        (Overdue(a) /\ Has(_asset_balances, a)) =>
            /\ \E i \in DOMAIN Swept.m.orders :
                  /\ Swept.m.orders[i].position = "sell"
                  /\ Swept.m.orders[i].asset = a
                  /\ Swept.m.orders[i].amount.num =
                         Get(_asset_balances, a) * Swept.m.orders[i].amount.den
            /\ ~Has(Swept.m.buy, a)
            /\ ~Has(Swept.m.sell, a)

\* C3: while the driver keeps sweeping and the clock keeps advancing, a
\* position that is overdue is eventually closed (or renewed by a new buy,
\* which moves its expiry).
C3_OverdueEventuallyClosed ==
    \A a \in AdviceAssets :
        Overdue(a) ~> (~Has(_sell_time, a) \/ ~Overdue(a))

\* C4: no call submits a market order whose amount is not positive: not a
\* directive (buy, sell, sell all), not the sweep, not the construction.
\* The construction starts from a new engine whatever the state, so its
\* outcomes are examined once, in the states where no position is tracked.
C4_NoNonPositiveOrder ==
    /\ \A advice \in Advices : \A e \in EnvsFor(advice) : AllPositive(Advised(advice, e))
    /\ AllPositive(Swept)
    /\ (_buy_time = <<>> /\ _sell_time = <<>> /\ now = 0) =>
           \A e \in InitEnvs : AllPositive(Construct(e))

\* a state where the guards decide: a zero balance of "BTC" in the snapshot,
\* for which a sell directive submits nothing, an overdue position of "BTC",
\* for which the sweep submits nothing, and a buy that submits its order
C4_Witness ==
    /\ Has(_asset_balances, "BTC") /\ Get(_asset_balances, "BTC") = 0
    /\ Advised(Sell("BTC"), OkSellEnv).m.orders = <<>>
    /\ Overdue("BTC") /\ Swept.m.orders = <<>>
    /\ \E e \in EnvsFor(Buy("BTC", 0)) : Len(Advised(Buy("BTC", 0), e).m.orders) = 1

\* C5: when an exchange call fails during executeTradeAdvice, and the
\* exchange accepted no order and answered no balance fetch of the call, no
\* exception leaves the call and the snapshot and both timestamp dictionaries
\* are as before it.
C5_FailureLeavesState ==
    \A advice \in Advices : \A e \in EnvsFor(advice) :
        LET r == Advised(advice, e)
        IN  (/\ SomeCallFailed(r, e)
             /\ r.m.orders = <<>>
             /\ \A i \in DOMAIN r.m.calls : r.m.calls[i].fn = "fetch_balance" => ~r.m.calls[i].ok) =>
                /\ r.exc = "none"
                /\ r.m.bal = _asset_balances
                /\ r.m.buy = _buy_time
                /\ r.m.sell = _sell_time

\* C6 as claimed: a sell directive for an asset that is held in the snapshot
\* and has no _buy_time entry raises out of executeTradeAdvice.
C6_UntrackedSellPropagates ==
    \A a \in AdviceAssets :
        (Held(a) /\ ~Has(_buy_time, a)) => Advised(Sell(a), OkSellEnv).exc # "none"

\* C6 as amended: a sell directive for an asset that is held in the snapshot
\* and has no _buy_time entry submits the market sell, the KeyError of the
\* removal is caught and logged by _sellAsset, and executeTradeAdvice returns
\* without an exception; the same holds inside bulk liquidation.
C6_UntrackedSellAbsorbed ==
    \A a \in AdviceAssets :
        (Held(a) /\ ~Has(_buy_time, a)) =>
            /\ LET r == Advised(Sell(a), OkSellEnv)
               IN  /\ r.exc = "none"
                   /\ SoldIn(r, a)
                   /\ \E i \in DOMAIN r.m.log :
                          r.m.log[i] = [msg |-> "failed to sell", asset |-> a, exc |-> "KeyError"]
                   /\ ~Has(r.m.buy, a)
            /\ LET r == _sellAllAssets(Self(OkSellEnv), OkSellEnv)
               IN  /\ r.exc = "none"
                   /\ SoldIn(r, a)
                   /\ \E i \in DOMAIN r.m.log :
                          r.m.log[i] = [msg |-> "failed to sell", asset |-> a, exc |-> "KeyError"]

\* an asset held in the snapshot that the engine never bought, next to one it
\* did buy, after a call that returned
C6_Witness ==
    /\ Held("BTC") /\ ~Has(_buy_time, "BTC") /\ ~Has(_sell_time, "BTC")
    /\ Has(_buy_time, "all")
    /\ raised = "none"
    /\ SoldIn(Advised(Sell("BTC"), OkSellEnv), "BTC")

\* C7: a bulk liquidation that follows a bulk liquidation, all exchange calls
\* succeeding, submits no sell order.
C7_SecondLiquidationEmpty ==
    LET r1 == _sellAllAssets(Self(OkSellEnv), OkSellEnv)
        r2 == _sellAllAssets(Fresh(r1.m), OkSellEnv)
    IN  r2.m.orders = <<>>

\* C8: a buy directive with a duration, for an asset of the snapshot, with a
\* positive quote balance and every exchange call succeeding, submits exactly
\* one market buy of quote * 20/100 * (1 - max_fee) / price asset units and
\* records _buy_time = t0 and _sell_time = t0 + duration hours, t0 being the
\* time of the call.
C8_BuySizedAndStamped ==
    \A a \in AdviceAssets : \A d \in Durations \ {None} :
        (Has(_asset_balances, a) /\ Held(USDT)) =>
            \A e \in {x \in EnvsFor(Buy(a, d)) : x.fail = {}} :
                LET r == Advised(Buy(a, d), e)
                IN  /\ Len(r.m.orders) = 1
                    /\ r.m.orders[1].position = "buy"
                    /\ r.m.orders[1].asset = a
                    /\ r.m.orders[1].amount =
                           Frac(Get(_asset_balances, USDT) * 20 * (MaxFeeDen - MaxFeeNum),
                                100 * MaxFeeDen * e.price)
                    /\ Has(r.m.buy, a) /\ Get(r.m.buy, a) = now
                    /\ Has(r.m.sell, a) /\ Get(r.m.sell, a) = now + d * HourTicks

\* C9: with every exchange call succeeding, bulk liquidation, by the
\* directive (sell, "all") or at construction, submits a sell for an asset
\* if and only if the asset has a positive snapshot balance and is not the
\* quote currency.
C9_LiquidatesHeldNonQuote ==
    /\ \A a \in AssetNames :
          SoldIn(Advised(Sell("all"), OkSellEnv), a) <=> (Held(a) /\ a # USDT)
    /\ \A e \in {x \in InitEnvs : x.fail = {}} : \A a \in AssetNames :
          SoldIn(Construct(e), a) <=>
              \E i \in DOMAIN e.listing :
                  e.listing[i].asset = a /\ e.listing[i].free > 0 /\ a # USDT

\* a snapshot with a held non-quote asset, a zero balance and a held quote
\* balance, in a state that calls since the construction have changed
C9_Witness ==
    /\ Held("all") /\ Held(USDT)
    /\ Has(_asset_balances, "BTC") /\ ~Held("BTC")
    /\ Has(_sell_time, "all")
    /\ SoldIn(Advised(Sell("all"), OkSellEnv), "all")

\* C10: whatever sells the exchange rejects and whatever removals fault,
\* bulk liquidation calls create_market_sell_order for every non-quote asset
\* with a positive snapshot balance, and no exception leaves it.
C10_BatchIsolated ==
    \A e \in SellEnvs :
        LET r == _sellAllAssets(Self(e), e)
        IN  /\ r.exc = "none"
            /\ \A a \in AssetNames \ {USDT} : Held(a) => SellTriedIn(r, a)

\* two held non-quote assets, the first tracked and the second not: with the
\* first sell rejected, the second is still submitted and its removal faults
C10_Witness ==
    /\ Held("BTC") /\ Held("all")
    /\ Has(_buy_time, "BTC") /\ ~Has(_buy_time, "all")
    /\ LET e == Answer({1}, 1, 0, NoListing)
           r == _sellAllAssets(Self(e), e)
       IN  /\ ~SoldIn(r, "BTC")
           /\ SoldIn(r, "all")
           /\ Len(r.m.log) = 2

\* the answers of a refresh whose fetch succeeds
RefreshEnvs == {Answer({}, 1, 0, l) : l \in Listings}

\* the dictionary d has exactly the assets and the free amounts of the listing
SameAsListing(d, listing) ==
    /\ \A a \in AssetNames : Has(d, a) <=> Lists(listing, a)
    /\ \A i \in DOMAIN listing : Get(d, listing[i].asset) = listing[i].free
    /\ Len(d) = Cardinality({listing[i].asset : i \in DOMAIN listing})

\* C11: after a successful refresh, and after a successful refresh that
\* follows it, the snapshot has exactly the assets and free amounts of the
\* listing fetched last, whatever the snapshot was before.
C11_SnapshotIsLastListing ==
    \A e1 \in RefreshEnvs :
        LET r1 == _refreshBalances(Self(e1), e1)
        IN  /\ r1.exc = "none"
            /\ SameAsListing(r1.m.bal, e1.listing)
            /\ (_buy_time = <<>> /\ now = 0) =>
                   \A e2 \in RefreshEnvs :
                       LET r2 == _refreshBalances(Fresh(r1.m), e2)
                       IN  r2.exc = "none" /\ SameAsListing(r2.m.bal, e2.listing)

\* a snapshot of an engine that has bought, with an entry for "BTC" that a
\* listing without "BTC" drops
C11_Witness ==
    /\ Has(_asset_balances, "BTC") /\ Has(_buy_time, "BTC")
    /\ \E e \in RefreshEnvs :
          /\ ~Lists(e.listing, "BTC")
          /\ ~Has(_refreshBalances(Self(e), e).m.bal, "BTC")

\* the number of entries of the dictionary d for the key k
Entries(d, k) == Cardinality({i \in DOMAIN d : d[i].k = k})

\* the asset has an open position: an entry in both timestamp dictionaries
Open(a) == Has(_buy_time, a) /\ Has(_sell_time, a)

\* C12: a buy directive for an asset of the snapshot that has an open
\* position, with a positive quote balance and every exchange call
\* succeeding, submits exactly one order, a buy, completes without a failure,
\* sets _buy_time to the time of the call and _sell_time to the clock plus the
\* duration, and leaves exactly one entry for the asset in each dictionary.
C12_RebuyRenews ==
    \A a \in AdviceAssets : \A d \in Durations :
        (Open(a) /\ Has(_asset_balances, a) /\ Held(USDT)) =>
            \A e \in {x \in EnvsFor(Buy(a, d)) : x.fail = {}} :
                LET r == Advised(Buy(a, d), e)
                IN  /\ r.exc = "none"
                    /\ Len(r.m.orders) = 1
                    /\ r.m.orders[1].position = "buy" /\ r.m.orders[1].asset = a
                    /\ \A i \in DOMAIN r.m.log : r.m.log[i].msg # "failed to buy"
                    /\ Entries(r.m.buy, a) = 1 /\ Entries(r.m.sell, a) = 1
                    /\ Get(r.m.buy, a) = now
                    /\ d # None => Get(r.m.sell, a) = r.m.t + d * HourTicks

\* the number of times create_market_sell_order was called for asset a
SellTries(r, a) ==
    Cardinality({i \in DOMAIN r.m.calls :
        r.m.calls[i].fn = "create_market_sell_order" /\ r.m.calls[i].asset = a})

\* 1 when the condition holds, 0 when it does not
Count(cond) == IF cond THEN 1 ELSE 0

\* C13: for a sell directive, whatever the exchange answers, the bulk
\* liquidation runs if and only if the asset is "all" and the direct sell if
\* and only if the asset is a key of the snapshot: a held asset other than
\* the named one is sold once when the asset is "all" and not at all
\* otherwise, the named asset is sold once for each of the two that runs, and
\* when neither runs nothing is called, logged or changed.
C13_SellChecksIndependent ==
    \A a \in AdviceAssets : \A e \in SellEnvs :
        LET r == Advised(Sell(a), e)
            bulk == a = "all"
            direct == Has(_asset_balances, a)
        IN  /\ r.exc = "none"
            /\ \A x \in AssetNames \ {a} :
                   SellTries(r, x) = Count(bulk /\ Held(x) /\ x # USDT)
            /\ SellTries(r, a) = Count(bulk /\ Held(a)) + Count(direct /\ Held(a))
            /\ (~bulk /\ ~direct) =>
                   /\ r.m.calls = <<>> /\ r.m.log = <<>>
                   /\ r.m.bal = _asset_balances
                   /\ r.m.buy = _buy_time /\ r.m.sell = _sell_time

\* "all" is a held asset with an open position, next to a held "BTC": the
\* directive (sell, "all") sells "BTC" once and "all" twice
C13_Witness ==
    /\ Held("all") /\ Held("BTC") /\ Open("all")
    /\ LET r == Advised(Sell("all"), OkSellEnv)
       IN  SellTries(r, "all") = 2 /\ SellTries(r, "BTC") = 1

\* the directive the grammar gives for a token sequence: two tokens of which
\* the first is sell; three or more of which the first is buy and the third
\* is numeric, "all" standing for the default asset; nothing otherwise
Grammar(parts) ==
    IF Len(parts) = 2 /\ parts[1] = "sell" THEN Advice("sell", parts[2], None)
    ELSE IF Len(parts) >= 3 /\ parts[1] = "buy" /\ IsDigit(parts[3])
    THEN Advice("buy", IF parts[2] = "all" THEN DefaultAsset ELSE parts[2], IntOf(parts[3]))
    ELSE NoAdvice

\* C14: for every token sequence getTradeAdvice returns the directive of the
\* grammar, or nothing when the grammar gives none, and raises no error.
C14_ParseFollowsGrammar ==
    parsed # NotCalled => parsed.returned = Grammar(response)

\* the times of the articles of feed f in the list a poll returned, in order
TimesOf(articles, f) ==
    LET own == SelectSeq(articles, LAMBDA a : a.feed = f)
    IN  [k \in DOMAIN own |-> own[k].time]

\* the latest of a last-seen time and the times of a batch
Latest(t, batch) ==
    CHOOSE x \in {t} \cup {batch[j] : j \in DOMAIN batch} :
        \A y \in {t} \cup {batch[j] : j \in DOMAIN batch} : x >= y

\* C15: whatever the getters yield in a poll, no last-seen time decreases;
\* and when the poll returns, the articles it forwards for a feed are, in
\* order, those of the feed's batch whose time is strictly greater than the
\* last-seen time the feed had when the poll started, and the feed's
\* last-seen time becomes the latest of that time and the times of the batch.
C15_ForwardsNewerOnly ==
    \A answers \in PollAnswers :
        LET r == getArticles(_last_article_times, answers)
        IN  /\ \A f \in Feeds : r.times[f] >= _last_article_times[f]
            /\ r.exc = "none" =>
                  \A f \in Feeds :
                      /\ TimesOf(r.articles, f) =
                             SelectSeq(answers[f], LAMBDA t : t > _last_article_times[f])
                      /\ r.times[f] = Latest(_last_article_times[f], answers[f])

\* after a poll that returned, feed 1 has seen an article of time 1: a batch
\* with an article of that same time and a later one forwards the later one
\* only, while feed 2, which has seen nothing, forwards its article of time 1
C15_Witness ==
    /\ polled.exc = "none"
    /\ _last_article_times[1] = 1 /\ _last_article_times[2] = Epoch
    /\ LET answers == [f \in Feeds |-> IF f = 1 THEN <<1, MaxStamp>> ELSE <<1>>]
           r == getArticles(_last_article_times, answers)
       IN  /\ r.articles = <<[feed |-> 1, time |-> MaxStamp], [feed |-> 2, time |-> 1]>>
           /\ r.times[1] = MaxStamp

\* the number of balance fetches of the call
Fetches(r) ==
    Cardinality({i \in DOMAIN r.m.calls : r.m.calls[i].fn = "fetch_balance"})

\* C16: _executeOrder for a buy or a sell of an asset that is not in the
\* snapshot fetches the balances exactly once; when the fetch succeeds and
\* the listing lacks the asset, it returns with no order submitted, nothing
\* logged and both timestamp dictionaries unchanged; when the listing has the
\* asset, the order call is made and the outcome is that of the same order on
\* an engine whose snapshot already is the listing.
C16_AbsentAssetRefreshedOnce ==
    \A order \in {o \in Orders : o.position # "hold"} : \A e \in ExecEnvs :
        ~Has(_asset_balances, order.asset) =>
            LET r == Executed(order, e)
                fetched == _refreshBalances(Self(e), e)
            IN  /\ Fetches(r) = 1
                /\ (1 \notin e.fail /\ ~Lists(e.listing, order.asset)) =>
                       /\ r.exc = "none"
                       /\ r.m.orders = <<>> /\ r.m.log = <<>>
                       /\ Len(r.m.calls) = 1
                       /\ r.m.bal = LoadBalances(<<>>, e.listing, 1)
                       /\ r.m.buy = _buy_time /\ r.m.sell = _sell_time
                /\ (1 \notin e.fail /\ Lists(e.listing, order.asset)) =>
                       /\ Len(r.m.calls) = 2
                       /\ r.m.calls[2].asset = order.asset
                       /\ r.m.calls[2].fn =
                              IF order.position = "buy" THEN "create_market_buy_order"
                              ELSE "create_market_sell_order"
                       /\ r = _executeOrder(fetched.m, e, order)

\* "BTC" is not in the snapshot of an engine that has bought "all": a buy of
\* "BTC" is submitted when the listing fetched has "BTC", and dropped when it
\* has not
C16_Witness ==
    /\ ~Has(_asset_balances, "BTC") /\ Has(_buy_time, "all")
    /\ LET order == [position |-> "buy", asset |-> "BTC", amount |-> Frac(1, 1),
                     duration |-> 0]
       IN  /\ \E e \in ExecEnvs :
                  /\ e.fail = {} /\ Lists(e.listing, "BTC")
                  /\ Len(Executed(order, e).m.orders) = 1
                  /\ Has(Executed(order, e).m.sell, "BTC")
           /\ \E e \in ExecEnvs :
                  /\ e.fail = {} /\ ~Lists(e.listing, "BTC")
                  /\ Executed(order, e).m.orders = <<>>
                  /\ Fetches(Executed(order, e)) = 1

\* C17: _executeOrder for an order whose direction is neither buy nor sell
\* submits no order, raises nothing, and leaves the snapshot and both
\* timestamp dictionaries as they were, the asset in the snapshot or not.
C17_OtherDirectionNoEffect ==
    \A order \in {o \in Orders : o.position = "hold"} : \A e \in ExecEnvs :
        LET r == Executed(order, e)
        IN  /\ r.exc = "none"
            /\ r.m.orders = <<>>
            /\ r.m.bal = _asset_balances
            /\ r.m.buy = _buy_time /\ r.m.sell = _sell_time

\* both calls have ended
BothEnded == pc.buy \in Ended \ {"start"} /\ pc.sell \in Ended \ {"start"}

\* one timestamp dictionary has an entry for the asset and the other has not
Torn == Has(_buy_time, Contended) # Has(_sell_time, Contended)

\* C18: when the driver runs the buy and the sell of one asset each to its
\* end, in either order, the two dictionaries agree on the asset once both
\* have ended, unless the buy itself raised on its expiry; with the
\* statements interleaved a state where they disagree is reached.
C18_SequentialCallsAgree ==
    (pc.mode = "sequential" /\ BothEnded /\ pc.buy # "TypeError") => ~Torn

\* with the statements interleaved, both calls have ended, the buy without
\* an exception, and one dictionary holds an entry the other lacks
C18_Witness ==
    /\ pc.mode = "interleaved" /\ BothEnded
    /\ pc.buy = "done"
    /\ Torn

\* C19: a directive leaves the snapshot as it was unless it is a buy of an
\* asset that is not in the snapshot, which fetches the balances once; the
\* sweep leaves it as it was; an accepted sell leaves the asset's balance, an
\* accepted buy without a fetch the quote balance; and the same buy directive
\* again, at the same price, submits the same amount.
C19_OrdersLeaveSnapshot ==
    /\ Swept.m.bal = _asset_balances
    /\ \A advice \in Advices : \A e \in EnvsFor(advice) :
          LET r == Advised(advice, e)
          IN  /\ r.m.bal # _asset_balances =>
                     /\ advice.position = "buy"
                     /\ ~Has(_asset_balances, advice.asset)
                     /\ Fetches(r) = 1
              /\ \A i \in DOMAIN r.m.orders :
                     r.m.orders[i].position = "sell" =>
                         Get(r.m.bal, r.m.orders[i].asset) =
                             Get(_asset_balances, r.m.orders[i].asset)
              /\ (r.m.orders # <<>> /\ advice.position = "buy" /\ Fetches(r) = 0) =>
                     LET again == executeTradeAdvice(Fresh(r.m), e, advice)
                     IN  /\ Get(r.m.bal, USDT) = Get(_asset_balances, USDT)
                         /\ Len(again.m.orders) = 1
                         /\ again.m.orders[1].amount = r.m.orders[1].amount

\* an engine with an open position in a held "BTC": a sell of it is accepted
\* and its snapshot balance stays positive, and a buy of it is accepted and
\* the quote balance stays what it was
C19_Witness ==
    /\ Held("BTC") /\ Open("BTC") /\ Held(USDT)
    /\ LET r == Advised(Sell("BTC"), OkSellEnv)
       IN  SoldIn(r, "BTC") /\ Get(r.m.bal, "BTC") > 0
    /\ \E e \in EnvsFor(Buy("BTC", 0)) :
          LET r == Advised(Buy("BTC", 0), e)
          IN  Len(r.m.orders) = 1 /\ Get(r.m.bal, USDT) = Get(_asset_balances, USDT)

\* C20: the sweep calls no sell for, and leaves as they were the _buy_time
\* and _sell_time entries of, every tracked asset whose expiry is not earlier
\* than the current time, other tracked assets being overdue or not.
C20_SweepSparesUnexpired ==
    \A a \in AssetNames :
        (Has(_sell_time, a) /\ ~Overdue(a)) =>
            /\ ~SellTriedIn(Swept, a) /\ ~SoldIn(Swept, a)
            /\ Has(Swept.m.sell, a) /\ Get(Swept.m.sell, a) = Get(_sell_time, a)
            /\ Has(Swept.m.buy, a) = Has(_buy_time, a)
            /\ Has(_buy_time, a) => Get(Swept.m.buy, a) = Get(_buy_time, a)

\* "BTC" is overdue and "all" is tracked with an expiry still ahead: the
\* sweep reaches the overdue entry and keeps the entries of "all"
C20_Witness ==
    /\ Overdue("BTC") /\ Has(_asset_balances, "BTC")
    /\ Open("all") /\ Get(_sell_time, "all") > now
    /\ Swept.exc = "TypeError"
    /\ Has(Swept.m.sell, "all")

====
